---- MODULE Spec2Model ----
(***************************************************************************)
(* Layer-wise relevance propagation toolbox (python/mxmodules, mxlrp.py).  *)
(*                                                                         *)
(* The model follows the Python sources operation by operation.  Tensors   *)
(* are records of a shape and the elements in C order; numbers are exact   *)
(* rationals (the floating point rounding of mxnet is not modelled), with  *)
(* a counter for the applications of tanh, which has no rational value.    *)
(* A Python exception is a result with ok = FALSE; it ends the method      *)
(* that raised it and every caller up to the operation's entry point,      *)
(* and the assignments made before it stay.                                *)
(***************************************************************************)
EXTENDS Integers, Sequences, FiniteSets, TLC

VARIABLES
    modules,   \* Sequential.modules: the list of layer objects and their attributes;
               \* for a custom operator with attributes, the operator object alone
    op,        \* the operation called last and its arguments
    ret,       \* what that operation returned, or that it raised
    calls,     \* the calls the last Sequential operation made on its modules, in order
    in_data,   \* mx.operator.CustomOp: [x, weight, bias] of the custom operator
    out_data,  \* the operator's output y, written by forward
    out_grad,  \* the relevance ry handed to backward
    in_grad,   \* the relevance rx written by backward
    cpc,       \* the custom operator's position: "new", "forward", "backward"
               \* ("none" where there is no custom operator)
    tr         \* Sequential.train: its arguments, its local variables and its position

netVars == <<modules, op, ret, calls>>
opVars == <<in_data, out_data, out_grad, in_grad, cpc>>
vars == <<modules, op, ret, calls, in_data, out_data, out_grad, in_grad, cpc, tr>>

----------------------------------------------------------------------------
(* Bounds of the model. *)

MaxH == 2      \* heights of the tensors handed to forward and lrp: 1..MaxH
MaxW == 3      \* their widths: 1..MaxW
MaxForwards == 2   \* calls of forward on one module that are told apart
MaxIters == 4  \* iterations of a training run
MaxLoss == 1   \* l1-losses of an evaluation that sys.maxint exceeds: 0..MaxLoss
MaxVal == 1    \* entries of x, weight and bias of the dense operator: -MaxVal..MaxVal

(* MaxPool's default pool and stride (both directions); the model draws    *)
(* pools and strides from 1..DefaultPool.                                  *)
DefaultPool == 2

----------------------------------------------------------------------------
(* Numbers.  [n, d, t] is tanh applied t times to n/d, d > 0, gcd(n,d) = 1. *)

RECURSIVE GCD(_, _)
GCD(a, b) == IF b = 0 THEN a ELSE GCD(b, a % b)

Abs(a) == IF a < 0 THEN -a ELSE a

Q(n, d) ==
    LET s == IF d < 0 THEN -1 ELSE 1
        g == GCD(Abs(n), Abs(d))
    IN  [n |-> (s * n) \div g, d |-> (s * d) \div g, t |-> 0]

Zero == [n |-> 0, d |-> 1, t |-> 0]
One == [n |-> 1, d |-> 1, t |-> 0]
Num(i) == [n |-> i, d |-> 1, t |-> 0]

QAdd(a, b) == Q(a.n * b.d + b.n * a.d, a.d * b.d)
QMul(a, b) == Q(a.n * b.n, a.d * b.d)
QDiv(a, b) == Q(a.n * b.d, a.d * b.n)

(* The order of two numbers of one tensor: tanh is strictly increasing and  *)
(* keeps the sign, so numbers under the same count of tanh compare as their *)
(* arguments, and any number compares with 0 by its sign.                   *)
VLess(a, b) == a.n * b.d < b.n * a.d

VMax(S) == CHOOSE m \in S : \A v \in S : ~VLess(m, v)

RECURSIVE QSum(_)
QSum(s) == IF s = <<>> THEN Zero ELSE QAdd(s[1], QSum(Tail(s)))

----------------------------------------------------------------------------
(* Tensors: mxnet NDArrays.  None and a missing attribute are tensors of   *)
(* their own tag so that every attribute has one type.                     *)

RECURSIVE Prod(_)
Prod(s) == IF s = <<>> THEN 1 ELSE s[1] * Prod(Tail(s))

ND(shape, data) == [tag |-> "nd", shape |-> shape, data |-> data]
None == [tag |-> "None", shape |-> <<>>, data |-> <<>>]
Unset == [tag |-> "unset", shape |-> <<>>, data |-> <<>>]

IsND(T) == T.tag = "nd"

(* A call's result: the value returned, or ok = FALSE for a raised error. *)
Ok(v) == [ok |-> TRUE, val |-> v]
Err == [ok |-> FALSE, val |-> None]

(* T[n,h,w,d] of a 4-dimensional tensor, indices from 0 as in Python. *)
Off4(shape, n, h, w, d) == ((n * shape[2] + h) * shape[3] + w) * shape[4] + d + 1
At4(T, n, h, w, d) == T.data[Off4(T.shape, n, h, w, d)]

(* The index (n,h,w,d) of the p-th element in C order, p from 1. *)
Idx4(shape, p) ==
    LET q == p - 1
    IN  [n |-> q \div (shape[2] * shape[3] * shape[4]),
         h |-> (q \div (shape[3] * shape[4])) % shape[2],
         w |-> (q \div shape[4]) % shape[3],
         d |-> q % shape[4]]

(* nd.zeros_like(T) *)
ZerosLike(T) == ND(T.shape, [p \in 1..Len(T.data) |-> Zero])

(* Sum of all entries. *)
TSum(T) == QSum(T.data)

----------------------------------------------------------------------------
(* Module (module.py, not part of the sources at hand): the base class of  *)
(* every layer.  It keeps the preset relevance variant, and its lrp        *)
(* resolves the variant of a call and dispatches to the rule of the        *)
(* subclass.  Python's None is NoVar for a variant and NoParam for a       *)
(* parameter.                                                              *)

NoVar == "None"
NoParam == <<>>

(* Module.__init__: the preset variant defaults to simple.  hist and nfwd  *)
(* are not attributes of the object: hist records whether forward was      *)
(* called on it ("forward"), clean was called with no forward after it     *)
(* ("clean"), or neither since its construction ("new"); nfwd counts the   *)
(* calls of forward on it, up to MaxForwards.                              *)
Module(kind, pool, stride) ==
    [kind |-> kind, pool |-> pool, stride |-> stride,
     X |-> Unset, Y |-> Unset, inputshape |-> <<>>,
     lrp_var |-> "simple", lrp_param |-> NoParam,
     hist |-> "new", nfwd |-> 0]

(* Module.set_lrp_parameters *)
ModuleSetLrpParameters(m, lrp_var, param) ==
    [m EXCEPT !.lrp_var = lrp_var, !.lrp_param = param]

(* Module.clean: releases the cached tensors. *)
ModuleClean(m) == [m EXCEPT !.X = None, !.Y = None]

(* The variant a call of Module.lrp resolves to: the one given, or the     *)
(* preset when none is given.                                              *)
ResolveVar(m, lrp_var, param) ==
    IF lrp_var = NoVar
        THEN [lrp_var |-> m.lrp_var, param |-> m.lrp_param]
        ELSE [lrp_var |-> lrp_var, param |-> param]

(* The rule a variant name selects (the names are those of the docstring   *)
(* of Sequential.lrp); "unknown" for any other name.                       *)
RuleOf(lrp_var) ==
    CASE lrp_var \in {NoVar, "none", "simple"} -> "simple"
      [] lrp_var = "flat" -> "flat"
      [] lrp_var \in {"ww", "w^2"} -> "ww"
      [] lrp_var = "epsilon" -> "epsilon"
      [] lrp_var \in {"alphabeta", "alpha"} -> "alphabeta"
      [] OTHER -> "unknown"

----------------------------------------------------------------------------
(* MaxPool (maxpool.py) *)

MaxPool(pool, stride) == Module("MaxPool", pool, stride)

(* Hout = (H - hpool) / hstride + 1 and Wout alike: Python 2 integer       *)
(* division, which rounds down.                                            *)
OutDim(size, pool, stride) == (size - pool) \div stride + 1

(* The positions a..a+pool-1 of window number i in one direction. *)
InWin(x, i, pool, stride) == i * stride <= x /\ x < i * stride + pool

(* The entries X[n, i*hstride:i*hstride+hpool, j*wstride:j*wstride+wpool, d] *)
WinVals(m, X, n, i, j, d) ==
    { At4(X, n, i * m.stride[1] + a, j * m.stride[2] + b, d) :
        a \in 0..(m.pool[1] - 1), b \in 0..(m.pool[2] - 1) }

(* MaxPool.forward.  self.X is assigned before the shape is unpacked, so   *)
(* it stays assigned when the call raises: for an X that is not            *)
(* 4-dimensional, and for an X smaller than the pool, for which nd.zeros   *)
(* is asked for an output without elements.                                *)
MaxPoolForward(m, X) ==
    LET m1 == [m EXCEPT !.X = X]
    IN  IF ~IsND(X) \/ Len(X.shape) # 4 THEN [m |-> m1, res |-> Err]
        ELSE
        LET N == X.shape[1]
            D == X.shape[4]
            Hout == OutDim(X.shape[2], m.pool[1], m.stride[1])
            Wout == OutDim(X.shape[3], m.pool[2], m.stride[2])
            yshape == <<N, Hout, Wout, D>>
        IN  IF Hout < 1 \/ Wout < 1 THEN [m |-> m1, res |-> Err]
            ELSE
            LET Y == ND(yshape,
                        [p \in 1..(N * Hout * Wout * D) |->
                            LET ix == Idx4(yshape, p)
                            IN  VMax(WinVals(m, X, ix.n, ix.h, ix.w, ix.d))])
            IN  [m |-> [m1 EXCEPT !.Y = Y], res |-> Ok(Y)]

(* MaxPool.clean *)
MaxPoolClean(m) == [m EXCEPT !.X = None, !.Y = None]

(* R[:, i:i+1, j:j+1, :] can be taken and broadcast against the window:    *)
(* R is 4-dimensional, has a row i and a column j, and its batch and depth *)
(* are those of X or 1; anything else raises.                              *)
RFits(R, X, i, j) ==
    /\ IsND(R) /\ Len(R.shape) = 4
    /\ i < R.shape[2] /\ j < R.shape[3]
    /\ R.shape[1] \in {1, X.shape[1]}
    /\ R.shape[4] \in {1, X.shape[4]}

(* R[n,i,j,d] under that broadcast. *)
RAt(R, n, i, j, d) ==
    At4(R, IF R.shape[1] = 1 THEN 0 ELSE n, i, j, IF R.shape[4] = 1 THEN 0 ELSE d)

(* Mutant: ties are not counted. *)
Ties_one(m, n, i, j, d) == 1

(* Zs = Z.sum(axis=(1,2)): how many entries of the window equal its maximum. *)
Ties(m, n, i, j, d) ==
    Cardinality({ ab \in (0..(m.pool[1] - 1)) \X (0..(m.pool[2] - 1)) :
        At4(m.X, n, i * m.stride[1] + ab[1], j * m.stride[2] + ab[2], d)
            = At4(m.Y, n, i, j, d) })

(* One pass of the loop body of _simple_lrp, for window (i,j):             *)
(*   Z = Y[:,i,j,:] == X[window];  Rx[window] += (Z / Zs) * R[:,i,j,:]     *)
SimpleStep(m, R, i, j, Rx) ==
    [p \in 1..Len(Rx) |->
        LET ix == Idx4(m.X.shape, p)
        IN  IF /\ InWin(ix.h, i, m.pool[1], m.stride[1])
               /\ InWin(ix.w, j, m.pool[2], m.stride[2])
            THEN LET Z == IF m.X.data[p] = At4(m.Y, ix.n, i, j, ix.d) THEN One ELSE Zero
                     Zs == Num(Ties(m, ix.n, i, j, ix.d))
                 IN  QAdd(Rx[p], QMul(QDiv(Z, Zs), RAt(R, ix.n, i, j, ix.d)))
            ELSE Rx[p]]

(* The loops of _simple_lrp from window number k on, windows numbered row  *)
(* by row. *)
RECURSIVE SimpleLoop(_, _, _, _, _, _)
SimpleLoop(m, R, Hout, Wout, k, Rx) ==
    IF Hout < 1 \/ Wout < 1 \/ k >= Hout * Wout THEN Ok(ND(m.X.shape, Rx))
    ELSE LET i == k \div Wout
             j == k % Wout
         IN  IF ~IsND(m.Y) \/ ~RFits(R, m.X, i, j) THEN Err
             ELSE SimpleLoop(m, R, Hout, Wout, k + 1, SimpleStep(m, R, i, j, Rx))

(* MaxPool._simple_lrp: raises when self.X is None or missing. *)
MaxPool_simple_lrp(m, R) ==
    IF ~IsND(m.X) \/ Len(m.X.shape) # 4 THEN Err
    ELSE SimpleLoop(m, R,
                    OutDim(m.X.shape[2], m.pool[1], m.stride[1]),
                    OutDim(m.X.shape[3], m.pool[2], m.stride[2]),
                    0, ZerosLike(m.X).data)

(* Mutant: the relevance of a window is divided by the pool's height only. *)
FlatStep_height(m, R, i, j, Rx) ==
    [p \in 1..Len(Rx) |->
        LET ix == Idx4(m.X.shape, p)
        IN  IF /\ InWin(ix.h, i, m.pool[1], m.stride[1])
               /\ InWin(ix.w, j, m.pool[2], m.stride[2])
            THEN QAdd(Rx[p], QMul(QDiv(One, Num(m.pool[1])), RAt(R, ix.n, i, j, ix.d)))
            ELSE Rx[p]]

(* One pass of the loop body of _flat_lrp:                                 *)
(*   Z = ones([N,hpool,wpool,D]);  Zs = Z.sum(axis=(1,2))                  *)
FlatStep(m, R, i, j, Rx) ==
    [p \in 1..Len(Rx) |->
        LET ix == Idx4(m.X.shape, p)
        IN  IF /\ InWin(ix.h, i, m.pool[1], m.stride[1])
               /\ InWin(ix.w, j, m.pool[2], m.stride[2])
            THEN LET Zs == Num(m.pool[1] * m.pool[2])
                 IN  QAdd(Rx[p], QMul(QDiv(One, Zs), RAt(R, ix.n, i, j, ix.d)))
            ELSE Rx[p]]

RECURSIVE FlatLoop(_, _, _, _, _, _)
FlatLoop(m, R, Hout, Wout, k, Rx) ==
    IF Hout < 1 \/ Wout < 1 \/ k >= Hout * Wout THEN Ok(ND(m.X.shape, Rx))
    ELSE LET i == k \div Wout
             j == k % Wout
         IN  IF ~RFits(R, m.X, i, j) THEN Err
             ELSE FlatLoop(m, R, Hout, Wout, k + 1, FlatStep(m, R, i, j, Rx))

(* MaxPool._flat_lrp *)
MaxPool_flat_lrp(m, R) ==
    IF ~IsND(m.X) \/ Len(m.X.shape) # 4 THEN Err
    ELSE FlatLoop(m, R,
                  OutDim(m.X.shape[2], m.pool[1], m.stride[1]),
                  OutDim(m.X.shape[3], m.pool[2], m.stride[2]),
                  0, ZerosLike(m.X).data)

(* MaxPool._ww_lrp: "There are no weights to use. default to _flat_lrp(R)" *)
MaxPool_ww_lrp(m, R) == MaxPool_flat_lrp(m, R)

(* Mutant: the epsilon rule falls back to the flat rule. *)
MaxPool_epsilon_lrp_flat(m, R, epsilon) == MaxPool_flat_lrp(m, R)

(* MaxPool._epsilon_lrp: "default to _simple_lrp" *)
MaxPool_epsilon_lrp(m, R, epsilon) == MaxPool_simple_lrp(m, R)

(* MaxPool._alphabeta_lrp: "default to _simple_lrp" *)
MaxPool_alphabeta_lrp(m, R, alpha) == MaxPool_simple_lrp(m, R)

(* The rule methods of MaxPool by name; a name that is no rule raises. *)
MaxPoolRule(m, rule, R, param) ==
    CASE rule = "simple" -> MaxPool_simple_lrp(m, R)
      [] rule = "flat" -> MaxPool_flat_lrp(m, R)
      [] rule = "ww" -> MaxPool_ww_lrp(m, R)
      [] rule = "epsilon" -> MaxPool_epsilon_lrp(m, R, param)
      [] rule = "alphabeta" -> MaxPool_alphabeta_lrp(m, R, param)
      [] OTHER -> Err

(* Module.lrp, which MaxPool inherits: the dispatch on the resolved variant. *)
ModuleLrp(m, R, lrp_var, param) ==
    LET v == ResolveVar(m, lrp_var, param)
    IN  MaxPoolRule(m, RuleOf(v.lrp_var), R, v.param)

----------------------------------------------------------------------------
(* Rect (rect.py) *)

Rect == Module("Rect", <<>>, <<>>)

(* nd.maximum(0, x) *)
RectV(v) == IF v.n > 0 THEN v ELSE Zero

(* Mutant: an output cached before is kept. *)
RectForward_keep(m, X) ==
    LET Y == ND(X.shape, [p \in 1..Len(X.data) |-> RectV(X.data[p])])
    IN  [m |-> IF IsND(m.Y) THEN m ELSE [m EXCEPT !.Y = Y], res |-> Ok(Y)]

(* Rect.forward *)
RectForward(m, X) ==
    LET Y == ND(X.shape, [p \in 1..Len(X.data) |-> RectV(X.data[p])])
    IN  [m |-> [m EXCEPT !.Y = Y], res |-> Ok(Y)]

(* Rect.clean *)
RectClean(m) == [m EXCEPT !.Y = None]

(* Rect.lrp(R, *args, **kwargs): "just propagate R further down" *)
RectLrp(m, R, lrp_var, param) == Ok(R)

----------------------------------------------------------------------------
(* Tanh (tanh.py) *)

Tanh == Module("Tanh", <<>>, <<>>)

(* nd.tanh(x): tanh(0) = 0, and any other value is one more tanh of x. *)
TanhV(v) == IF v.n = 0 THEN Zero ELSE [v EXCEPT !.t = @ + 1]

(* Tanh.forward *)
TanhForward(m, X) ==
    LET Y == ND(X.shape, [p \in 1..Len(X.data) |-> TanhV(X.data[p])])
    IN  [m |-> [m EXCEPT !.Y = Y], res |-> Ok(Y)]

(* Tanh.clean *)
TanhClean(m) == [m EXCEPT !.Y = None]

(* Tanh.lrp(R, *args, **kwargs) *)
TanhLrp(m, R, lrp_var, param) == Ok(R)

----------------------------------------------------------------------------
(* Flatten (flatten.py) *)

Flatten == Module("Flatten", <<>>, <<>>)

(* Flatten.forward: X.reshape((batchsize, X.size / batchsize)); the        *)
(* elements keep their C order.  Nothing but the input's shape is kept.    *)
FlattenForward(m, X) ==
    LET batchsize == X.shape[1]
        output == ND(<<batchsize, Len(X.data) \div batchsize>>, X.data)
    IN  [m |-> [m EXCEPT !.inputshape = X.shape], res |-> Ok(output)]

(* nd.reshape(R, shape): raises unless the shape is given and holds as     *)
(* many elements as R.                                                     *)
Reshape(R, shape) ==
    IF shape = <<>> \/ Prod(shape) # Len(R.data) THEN Err
    ELSE Ok(ND(shape, R.data))

(* Mutant: the relevance is handed down in the shape it came in. *)
FlattenLrp_noreshape(m, R, lrp_var, param) ==
    IF Reshape(R, m.inputshape).ok THEN Ok(R) ELSE Err

(* Flatten.lrp(R, *args, **kwargs) *)
FlattenLrp(m, R, lrp_var, param) == Reshape(R, m.inputshape)

----------------------------------------------------------------------------
(* The methods of a module, by its class. *)

ForwardOf(m, X) ==
    LET r == CASE m.kind = "MaxPool" -> MaxPoolForward(m, X)
               [] m.kind = "Rect" -> RectForward(m, X)
               [] m.kind = "Tanh" -> TanhForward(m, X)
               [] m.kind = "Flatten" -> FlattenForward(m, X)
    IN  [m |-> [r.m EXCEPT !.hist = "forward",
                           !.nfwd = IF @ < MaxForwards THEN @ + 1 ELSE @],
         res |-> r.res]

CleanOf(m) ==
    LET c == CASE m.kind = "MaxPool" -> MaxPoolClean(m)
               [] m.kind = "Rect" -> RectClean(m)
               [] m.kind = "Tanh" -> TanhClean(m)
               [] m.kind = "Flatten" -> ModuleClean(m)
    IN  [c EXCEPT !.hist = "clean"]

LrpOf(m, R, lrp_var, param) ==
    CASE m.kind = "MaxPool" -> ModuleLrp(m, R, lrp_var, param)
      [] m.kind = "Rect" -> RectLrp(m, R, lrp_var, param)
      [] m.kind = "Tanh" -> TanhLrp(m, R, lrp_var, param)
      [] m.kind = "Flatten" -> FlattenLrp(m, R, lrp_var, param)

(* The rule a call of lrp applies on module m: the rule of the resolved    *)
(* variant for a class that dispatches, none for a class whose lrp takes   *)
(* no notice of its arguments.                                             *)
RuleUsed(m, lrp_var, param) ==
    IF m.kind = "MaxPool" THEN RuleOf(ResolveVar(m, lrp_var, param).lrp_var)
    ELSE "passthrough"

----------------------------------------------------------------------------
(* Sequential (sequential.py) *)

Call(k, meth, arg, lrp_var, param, rule, out) ==
    [m |-> k, meth |-> meth, arg |-> arg, lrp_var |-> lrp_var, param |-> param,
     rule |-> rule, out |-> out]

(* Sequential.forward: for m in self.modules: X = m.forward(X) *)
RECURSIVE ForwardSweep(_, _, _, _)
ForwardSweep(ms, X, k, log) ==
    IF k > Len(ms) THEN [modules |-> ms, calls |-> log, res |-> Ok(X)]
    ELSE LET r == ForwardOf(ms[k], X)
             ms1 == [ms EXCEPT ![k] = r.m]
             log1 == Append(log, Call(k, "forward", X, NoVar, NoParam, "", r.res))
         IN  IF r.res.ok THEN ForwardSweep(ms1, r.res.val, k + 1, log1)
             ELSE [modules |-> ms1, calls |-> log1, res |-> Err]

(* Mutant: every module is handed the network's input. *)
RECURSIVE ForwardSweepSameInput(_, _, _, _)
ForwardSweepSameInput(ms, X, k, log) ==
    IF k > Len(ms) THEN [modules |-> ms, calls |-> log, res |-> Ok(X)]
    ELSE LET r == ForwardOf(ms[k], X)
             ms1 == [ms EXCEPT ![k] = r.m]
             log1 == Append(log, Call(k, "forward", X, NoVar, NoParam, "", r.res))
         IN  IF r.res.ok
             THEN LET rest == ForwardSweepSameInput(ms1, X, k + 1, log1)
                  IN  IF k = Len(ms) THEN [rest EXCEPT !.res = r.res] ELSE rest
             ELSE [modules |-> ms1, calls |-> log1, res |-> Err]

SequentialForward_sameinput(ms, X) == ForwardSweepSameInput(ms, X, 1, <<>>)

SequentialForward(ms, X) == ForwardSweep(ms, X, 1, <<>>)

(* Sequential.lrp: for m in self.modules[::-1]: R = m.lrp(R,lrp_var,param) *)
RECURSIVE LrpSweep(_, _, _, _, _, _)
LrpSweep(ms, R, lrp_var, param, k, log) ==
    IF k < 1 THEN [modules |-> ms, calls |-> log, res |-> Ok(R)]
    ELSE LET r == LrpOf(ms[k], R, lrp_var, param)
             log1 == Append(log, Call(k, "lrp", R, lrp_var, param,
                                      RuleUsed(ms[k], lrp_var, param), r))
         IN  IF r.ok THEN LrpSweep(ms, r.val, lrp_var, param, k - 1, log1)
             ELSE [modules |-> ms, calls |-> log1, res |-> Err]

(* Mutant: the modules are taken in list order. *)
RECURSIVE LrpSweepListOrder(_, _, _, _, _, _)
LrpSweepListOrder(ms, R, lrp_var, param, k, log) ==
    IF k > Len(ms) THEN [modules |-> ms, calls |-> log, res |-> Ok(R)]
    ELSE LET r == LrpOf(ms[k], R, lrp_var, param)
             log1 == Append(log, Call(k, "lrp", R, lrp_var, param,
                                      RuleUsed(ms[k], lrp_var, param), r))
         IN  IF r.ok THEN LrpSweepListOrder(ms, r.val, lrp_var, param, k + 1, log1)
             ELSE [modules |-> ms, calls |-> log1, res |-> Err]

SequentialLrp_listorder(ms, R, lrp_var, param) ==
    LrpSweepListOrder(ms, R, lrp_var, param, 1, <<>>)

(* Mutant: the sweep releases the cache of the modules. *)
SequentialLrp_cleaning(ms, R, lrp_var, param) ==
    [LrpSweep(ms, R, lrp_var, param, Len(ms), <<>>) EXCEPT
        !.modules = [k \in 1..Len(ms) |-> CleanOf(ms[k])]]

(* Mutant: a module that raises is passed over. *)
RECURSIVE LrpSweepPassOver(_, _, _, _, _, _)
LrpSweepPassOver(ms, R, lrp_var, param, k, log) ==
    IF k < 1 THEN [modules |-> ms, calls |-> log, res |-> Ok(R)]
    ELSE LET r == LrpOf(ms[k], R, lrp_var, param)
             log1 == Append(log, Call(k, "lrp", R, lrp_var, param,
                                      RuleUsed(ms[k], lrp_var, param), r))
         IN  LrpSweepPassOver(ms, IF r.ok THEN r.val ELSE R, lrp_var, param, k - 1, log1)

SequentialLrp_passover(ms, R, lrp_var, param) ==
    LrpSweepPassOver(ms, R, lrp_var, param, Len(ms), <<>>)

(* Mutant: the variant of the call is not handed on to the modules. *)
SequentialLrp_nooverride(ms, R, lrp_var, param) ==
    LrpSweep(ms, R, NoVar, NoParam, Len(ms), <<>>)

SequentialLrp(ms, R, lrp_var, param) == LrpSweep(ms, R, lrp_var, param, Len(ms), <<>>)

(* Sequential.clean: for m in self.modules: m.clean() *)
SequentialClean(ms) == [k \in 1..Len(ms) |-> CleanOf(ms[k])]

(* Sequential.set_lrp_parameters *)
SequentialSetLrpParameters(ms, lrp_var, param) ==
    [k \in 1..Len(ms) |-> ModuleSetLrpParameters(ms[k], lrp_var, param)]

----------------------------------------------------------------------------
(* The inputs the model draws from.  Batch size and depth are 1 (the       *)
(* operators above are written for any), and a tensor drawn entry by entry *)
(* has at most two entries that are not zero.                              *)

Shapes4 == { <<1, h, w, 1>> : h \in 1..MaxH, w \in 1..MaxW }

(* The sequences of length len that are 0 but for v1 at p1 and v2 at p2. *)
Marked(len, vals) ==
    { [p \in 1..len |-> IF p = pv[1] THEN Num(pv[3])
                        ELSE IF p = pv[2] THEN Num(pv[4]) ELSE Zero] :
        pv \in { q \in (1..len) \X (1..len) \X (vals \cup {0}) \X (vals \cup {0}) :
                    q[1] <= q[2] /\ (q[1] = q[2] => q[3] = q[4]) } }

OnesOf(sh) == ND(sh, [p \in 1..Prod(sh) |-> One])
OneHots(sh) ==
    { ND(sh, [p \in 1..Prod(sh) |-> IF p = h THEN One ELSE Zero]) : h \in 0..Prod(sh) }

(* Entries -1, 0, 1, -1, ... from the off-th on. *)
Ramp(sh, off) == ND(sh, [p \in 1..Prod(sh) |-> Num(((p + off) % 3) - 1)])

(* Entries -1, 1, 3, ...: no two alike. *)
Odds(sh) == ND(sh, [p \in 1..Prod(sh) |-> Num(2 * p - 3)])

(* What a pooling layer alone is handed: every shape, entries -1, 0, 1;    *)
(* and the relevances of a given shape: all 1, and all different.          *)
PoolInputs == UNION { { ND(sh, d) : d \in Marked(Prod(sh), {-1, 1}) } : sh \in Shapes4 }
PoolRels(sh) == { OnesOf(sh), Odds(sh) }

(* What a network is handed: a flat, a tall and a 2-dimensional input. *)
NetShapes == { <<1, 1, MaxW, 1>>, <<1, MaxH, MaxW, 1>>, <<1, MaxW>> }
NetInputs == { Ramp(sh, 0) : sh \in NetShapes } \cup { Ramp(<<1, 1, MaxW, 1>>, 1) }

(* The relevances a network is handed: of the shape sh of its last output  *)
(* (if it has one) and of two shapes taken whatever that output was.       *)
NetRels(sh) ==
    (IF sh = <<>> THEN {} ELSE { OnesOf(sh), Ramp(sh, 2) })
        \cup { OnesOf(<<1, 1, MaxW, 1>>), OnesOf(<<1, MaxH * MaxW>>) }

(* Variant and parameter of a call of lrp: none, the names of the          *)
(* docstring of Sequential.lrp, and a name that is no variant.             *)
LrpArgs ==
    { <<NoVar, NoParam>>, <<"simple", NoParam>>, <<"flat", NoParam>>,
      <<"ww", NoParam>>, <<"epsilon", <<1>>>>, <<"alphabeta", <<2>>>>,
      <<"gamma", NoParam>> }
NetLrpArgs ==
    { <<NoVar, NoParam>>, <<"flat", NoParam>>, <<"epsilon", <<1>>>>, <<"gamma", NoParam>> }

PoolSizes == (1..DefaultPool) \X (1..DefaultPool)

(* The networks Sequential is constructed with. *)
Networks ==
    { <<Rect>>, <<Tanh>>, <<Flatten>>,
      <<MaxPool(<<1, 2>>, <<1, 1>>)>>,
      <<Tanh, MaxPool(<<1, 2>>, <<1, 1>>), Flatten>>,
      <<MaxPool(<<1, 2>>, <<1, 1>>), Rect, MaxPool(<<1, 2>>, <<1, 1>>)>>,
      <<Flatten, MaxPool(<<2, 2>>, <<2, 2>>)>> }

(* The shape of the output of module m's last forward, as far as m cached *)
(* it (Flatten keeps the input's shape only); <<>> when it cached none.    *)
CachedOutShape(m) ==
    IF m.kind = "Flatten"
    THEN IF m.inputshape = <<>> THEN <<>>
         ELSE <<m.inputshape[1], Prod(m.inputshape) \div m.inputshape[1]>>
    ELSE IF IsND(m.Y) THEN m.Y.shape ELSE <<>>

OutShape(ms) == CachedOutShape(ms[Len(ms)])

----------------------------------------------------------------------------
(* Spec: a Sequential network and the calls of its user. *)

NoOp == [name |-> "init", arg |-> None, lrp_var |-> NoVar, param |-> NoParam, k |-> 0]
Op(name, arg, lrp_var, param, k) ==
    [name |-> name, arg |-> arg, lrp_var |-> lrp_var, param |-> param, k |-> k]

(* No call of train is under way. *)
NoTrain == [pc |-> "none"]

OpIdle ==
    /\ in_data = <<>> /\ out_data = <<>> /\ out_grad = <<>> /\ in_grad = <<>>
    /\ cpc = "none"
    /\ tr = NoTrain

Init ==
    /\ modules \in Networks
    /\ op = NoOp
    /\ ret = Ok(None)
    /\ calls = <<>>
    /\ OpIdle

(* net.forward(X) *)
Forward(X) ==
    LET r == SequentialForward(modules, X)
    IN  /\ modules' = r.modules
        /\ op' = Op("forward", X, NoVar, NoParam, 0)
        /\ ret' = r.res
        /\ calls' = r.calls
        /\ UNCHANGED <<opVars, tr>>

(* net.lrp(R, lrp_var, param) *)
Lrp(R, lrp_var, param) ==
    LET r == SequentialLrp(modules, R, lrp_var, param)
    IN  /\ modules' = r.modules
        /\ op' = Op("lrp", R, lrp_var, param, 0)
        /\ ret' = r.res
        /\ calls' = r.calls
        /\ UNCHANGED <<opVars, tr>>

(* net.clean() *)
Clean ==
    /\ modules' = SequentialClean(modules)
    /\ op' = Op("clean", None, NoVar, NoParam, 0)
    /\ ret' = Ok(None)
    /\ calls' = <<>>
    /\ UNCHANGED <<opVars, tr>>

(* net.set_lrp_parameters(lrp_var, param) *)
SetLrpParameters(lrp_var, param) ==
    /\ modules' = SequentialSetLrpParameters(modules, lrp_var, param)
    /\ op' = Op("set_lrp_parameters", None, lrp_var, param, 0)
    /\ ret' = Ok(None)
    /\ calls' = <<>>
    /\ UNCHANGED <<opVars, tr>>

(* net.modules[k].set_lrp_parameters(lrp_var, param), the per-layer preset *)
(* of the docstring of Sequential.lrp.                                     *)
SetModuleLrpParameters(k, lrp_var, param) ==
    /\ modules' = [modules EXCEPT ![k] = ModuleSetLrpParameters(@, lrp_var, param)]
    /\ op' = Op("module.set_lrp_parameters", None, lrp_var, param, k)
    /\ ret' = Ok(None)
    /\ calls' = <<>>
    /\ UNCHANGED <<opVars, tr>>

Next ==
    \/ \E X \in NetInputs : Forward(X)
    \/ \E R \in NetRels(OutShape(modules)) : \E a \in NetLrpArgs : Lrp(R, a[1], a[2])
    \/ Clean
    \/ SetLrpParameters("flat", NoParam)
    \/ \E k \in 1..Len(modules) : SetModuleLrpParameters(k, "flat", NoParam)

Spec == Init /\ [][Next]_vars

----------------------------------------------------------------------------
(* C1: when Sequential.lrp returns, it has called lrp once on every module, *)
(* last module first; the first call got the caller's R and every later    *)
(* call the value the call before it returned; each call returned what the *)
(* module's lrp yields for that relevance; and the value returned to the   *)
(* caller is the one the first module of the list returned.                *)
C1_LrpReverseOrder ==
    (op.name = "lrp" /\ ret.ok) =>
        /\ Len(calls) = Len(modules)
        /\ \A j \in 1..Len(calls) :
            /\ calls[j].meth = "lrp"
            /\ calls[j].m = Len(modules) - j + 1
            /\ calls[j].arg = (IF j = 1 THEN op.arg ELSE calls[j - 1].out.val)
            /\ calls[j].out = LrpOf(modules[calls[j].m], calls[j].arg, op.lrp_var, op.param)
        /\ calls[Len(calls)].m = 1
        /\ ret.val = calls[Len(calls)].out.val

(* A sweep over three modules whose result is not the relevance handed in. *)
C1_Witness ==
    /\ op.name = "lrp" /\ ret.ok /\ Len(modules) = 3
    /\ ret.val # op.arg
    /\ calls[2].arg # calls[1].arg

(* C2: when Sequential.forward returns, it has called forward once on      *)
(* every module in list order; the first call got X and every later call   *)
(* the output of the call before it; each call returned what the module's  *)
(* forward yields for that input; and the value returned is the output of  *)
(* the last module.                                                        *)
C2_ForwardListOrder ==
    (op.name = "forward" /\ ret.ok) =>
        /\ Len(calls) = Len(modules)
        /\ \A j \in 1..Len(calls) :
            /\ calls[j].meth = "forward"
            /\ calls[j].m = j
            /\ calls[j].arg = (IF j = 1 THEN op.arg ELSE calls[j - 1].out.val)
            /\ calls[j].out = ForwardOf(modules[j], calls[j].arg).res
        /\ ret.val = calls[Len(calls)].out.val

(* A forward sweep over three modules, each of which changed its input. *)
C2_Witness ==
    /\ op.name = "forward" /\ ret.ok /\ Len(modules) = 3
    /\ \A j \in 1..3 : calls[j].out.val # calls[j].arg

(* C3: in Sequential.lrp every module is handed the variant and parameter  *)
(* of the call; a pooling module then applies the rule of that variant     *)
(* when one is given, whatever its preset, and the rule of its own preset  *)
(* when none is given; and the call leaves the preset of every module as   *)
(* it was.                                                                 *)
C3_VariantUsed ==
    op.name = "lrp" =>
        \A j \in 1..Len(calls) :
            LET m == modules[calls[j].m]
                R == calls[j].arg
            IN  /\ calls[j].lrp_var = op.lrp_var
                /\ calls[j].param = op.param
                /\ m.kind = "MaxPool" =>
                    IF op.lrp_var # NoVar
                    THEN /\ calls[j].rule = RuleOf(op.lrp_var)
                         /\ calls[j].out = MaxPoolRule(m, RuleOf(op.lrp_var), R, op.param)
                    ELSE /\ calls[j].rule = RuleOf(m.lrp_var)
                         /\ calls[j].out = MaxPoolRule(m, RuleOf(m.lrp_var), R, m.lrp_param)

C3_PresetKept ==
    op'.name = "lrp" =>
        /\ Len(modules') = Len(modules)
        /\ \A k \in 1..Len(modules) :
            /\ modules'[k].lrp_var = modules[k].lrp_var
            /\ modules'[k].lrp_param = modules[k].lrp_param

C3_Override == [](C3_VariantUsed) /\ [][C3_PresetKept]_vars

(* A pooling module preset to flat is called with epsilon given, and       *)
(* returns what flat would not have returned.                              *)
C3_Witness ==
    /\ op.name = "lrp" /\ op.lrp_var = "epsilon" /\ ret.ok
    /\ \E j \in 1..Len(calls) :
        LET m == modules[calls[j].m]
        IN  /\ m.kind = "MaxPool" /\ m.lrp_var = "flat"
            /\ calls[j].out # MaxPool_flat_lrp(m, calls[j].arg)

(* C4: a call of lrp on a module on which forward was never called, or on  *)
(* which clean was called with no forward after it, raises.                *)
C4_NoCacheLrpFails ==
    op.name = "lrp" =>
        \A j \in 1..Len(calls) :
            modules[calls[j].m].hist # "forward" => ~calls[j].out.ok

(* C5: a call of lrp with a relevance whose shape is not the shape of the  *)
(* output the module cached at its last forward raises.                    *)
C5_ShapeMismatchFails ==
    op.name = "lrp" =>
        \A j \in 1..Len(calls) :
            LET m == modules[calls[j].m]
            IN  (/\ m.hist = "forward"
                 /\ CachedOutShape(m) # <<>>
                 /\ calls[j].arg.shape # CachedOutShape(m)) => ~calls[j].out.ok

(* C8: Rect.lrp and Tanh.lrp return the relevance they are handed, and     *)
(* Flatten.lrp, when it returns, returns its elements in their order under *)
(* the shape cached by forward, which is the shape of the input of the     *)
(* last forward; it returns whenever the relevance has as many elements as *)
(* that input.  The variant and parameter of the call make no difference.  *)
C8_PassThrough ==
    /\ op.name = "forward" =>
        \A j \in 1..Len(calls) :
            modules[j].kind = "Flatten" => modules[j].inputshape = calls[j].arg.shape
    /\ op.name = "lrp" =>
        \A j \in 1..Len(calls) :
            LET m == modules[calls[j].m]
                R == calls[j].arg
            IN  /\ m.kind \in {"Rect", "Tanh"} => calls[j].out = Ok(R)
                /\ m.kind = "Flatten" =>
                    /\ calls[j].out.ok =>
                        /\ calls[j].out.val.shape = m.inputshape
                        /\ calls[j].out.val.data = R.data
                        /\ IsND(calls[j].out.val)
                    /\ (m.hist = "forward" /\ Len(R.data) = Prod(m.inputshape))
                            => calls[j].out.ok

(* Flatten.lrp gave a relevance the 4-dimensional shape of its input,     *)
(* under a variant given in the call.                                      *)
C8_Witness ==
    /\ op.name = "lrp" /\ ret.ok /\ op.lrp_var # NoVar
    /\ \E j \in 1..Len(calls) :
        /\ modules[calls[j].m].kind = "Flatten"
        /\ calls[j].out.val.shape # calls[j].arg.shape
        /\ Len(calls[j].out.val.shape) = 4

----------------------------------------------------------------------------
(* SpecPool: one MaxPool layer of any pool and stride, one forward, and    *)
(* then one of its relevance rules.  The layer is modules[1].              *)

PoolInit ==
    /\ modules \in { <<MaxPool(p, s)>> : p \in PoolSizes, s \in PoolSizes }
    /\ op = NoOp
    /\ ret = Ok(None)
    /\ calls = <<>>
    /\ OpIdle

(* layer.forward(X) *)
PoolForward(X) ==
    /\ op.name = "init"
    /\ LET r == ForwardOf(modules[1], X)
       IN  /\ modules' = <<r.m>>
           /\ ret' = r.res
    /\ op' = Op("forward", X, NoVar, NoParam, 1)
    /\ UNCHANGED <<calls, opVars, tr>>

PoolRule(name, R, param, res) ==
    /\ op.name = "forward" /\ ret.ok
    /\ op' = Op(name, R, NoVar, param, 1)
    /\ ret' = res
    /\ UNCHANGED <<modules, calls, opVars, tr>>

(* layer._simple_lrp(R) and the other rule methods *)
PoolSimpleLrp(R) == PoolRule("_simple_lrp", R, NoParam, MaxPool_simple_lrp(modules[1], R))
PoolFlatLrp(R) == PoolRule("_flat_lrp", R, NoParam, MaxPool_flat_lrp(modules[1], R))
PoolWwLrp(R) == PoolRule("_ww_lrp", R, NoParam, MaxPool_ww_lrp(modules[1], R))
PoolEpsilonLrp(R, epsilon) ==
    PoolRule("_epsilon_lrp", R, epsilon, MaxPool_epsilon_lrp(modules[1], R, epsilon))
PoolAlphaBetaLrp(R, alpha) ==
    PoolRule("_alphabeta_lrp", R, alpha, MaxPool_alphabeta_lrp(modules[1], R, alpha))

PoolNext ==
    \/ \E X \in PoolInputs : PoolForward(X)
    \/ \E R \in PoolRels(OutShape(modules)) : PoolSimpleLrp(R)
    \/ \E R \in PoolRels(OutShape(modules)) : PoolFlatLrp(R)
    \/ \E R \in PoolRels(OutShape(modules)) : PoolWwLrp(R)
    \/ \E R \in PoolRels(OutShape(modules)) : PoolEpsilonLrp(R, <<1>>)
    \/ \E R \in PoolRels(OutShape(modules)) : PoolAlphaBetaLrp(R, <<2>>)

SpecPool == PoolInit /\ [][PoolNext]_vars

----------------------------------------------------------------------------
(* What the relevance rules of MaxPool are to return, position by          *)
(* position, written without the loops of the code.                        *)

(* The positions <<h, w>> of window (i, j) of layer m. *)
Window(m, i, j) ==
    { hw \in (0..(m.X.shape[2] - 1)) \X (0..(m.X.shape[3] - 1)) :
        /\ i * m.stride[1] <= hw[1] /\ hw[1] < i * m.stride[1] + m.pool[1]
        /\ j * m.stride[2] <= hw[2] /\ hw[2] < j * m.stride[2] + m.pool[2] }

(* The positions of window (i, j) that hold the maximum of the window. *)
Maxima(m, n, i, j, d) ==
    { hw \in Window(m, i, j) :
        \A o \in Window(m, i, j) :
            ~VLess(At4(m.X, n, hw[1], hw[2], d), At4(m.X, n, o[1], o[2], d)) }

(* The windows of layer m, numbered row by row. *)
Windows(m) ==
    LET Hout == OutDim(m.X.shape[2], m.pool[1], m.stride[1])
        Wout == OutDim(m.X.shape[3], m.pool[2], m.stride[2])
    IN  [k \in 1..(Hout * Wout) |-> <<(k - 1) \div Wout, (k - 1) % Wout>>]

(* r/t from every window in which position p is one of the t maxima. *)
SimpleShare(m, R, p) ==
    LET ix == Idx4(m.X.shape, p)
        ws == Windows(m)
    IN  QSum([k \in 1..Len(ws) |->
            IF <<ix.h, ix.w>> \in Maxima(m, ix.n, ws[k][1], ws[k][2], ix.d)
            THEN QDiv(At4(R, ix.n, ws[k][1], ws[k][2], ix.d),
                      Num(Cardinality(Maxima(m, ix.n, ws[k][1], ws[k][2], ix.d))))
            ELSE Zero])

(* r/(hpool*wpool) from every window that covers position p. *)
FlatShare(m, R, p) ==
    LET ix == Idx4(m.X.shape, p)
        ws == Windows(m)
    IN  QSum([k \in 1..Len(ws) |->
            IF <<ix.h, ix.w>> \in Window(m, ws[k][1], ws[k][2])
            THEN QDiv(At4(R, ix.n, ws[k][1], ws[k][2], ix.d), Num(m.pool[1] * m.pool[2]))
            ELSE Zero])

SimpleRelevance(m, R) == Ok(ND(m.X.shape, [p \in 1..Len(m.X.data) |-> SimpleShare(m, R, p)]))
FlatRelevance(m, R) == Ok(ND(m.X.shape, [p \in 1..Len(m.X.data) |-> FlatShare(m, R, p)]))

(* Some window of the layer has more than one maximum. *)
HasTie(m) ==
    \E k \in 1..Len(Windows(m)) :
        Cardinality(Maxima(m, 0, Windows(m)[k][1], Windows(m)[k][2], 0)) > 1

(* Some position lies in more than one window; some position in none. *)
HasOverlap(m) ==
    \E k, l \in 1..Len(Windows(m)) :
        k # l /\ Window(m, Windows(m)[k][1], Windows(m)[k][2])
                    \cap Window(m, Windows(m)[l][1], Windows(m)[l][2]) # {}
HasUncovered(m) ==
    \E hw \in (0..(m.X.shape[2] - 1)) \X (0..(m.X.shape[3] - 1)) :
        \A k \in 1..Len(Windows(m)) : hw \notin Window(m, Windows(m)[k][1], Windows(m)[k][2])

(* C6, as the specification states it: the epsilon, alpha-beta and         *)
(* weight-squared rules of MaxPool return the tensor the flat rule returns *)
(* for the same cached input and the same R.                               *)
C6_AllFallBackToFlat ==
    op.name \in {"_epsilon_lrp", "_alphabeta_lrp", "_ww_lrp"} =>
        ret = MaxPool_flat_lrp(modules[1], op.arg)

(* C6, as the code has it: the weight-squared rule returns the tensor of   *)
(* the flat rule, relevance spread evenly over each whole window; the      *)
(* epsilon and alpha-beta rules return the tensor of the simple rule,      *)
(* relevance at the maxima of each window only.                            *)
C6_FallBack ==
    /\ op.name = "_ww_lrp" =>
        /\ ret = MaxPool_flat_lrp(modules[1], op.arg)
        /\ ret = FlatRelevance(modules[1], op.arg)
    /\ op.name \in {"_epsilon_lrp", "_alphabeta_lrp"} =>
        /\ ret = MaxPool_simple_lrp(modules[1], op.arg)
        /\ ret = SimpleRelevance(modules[1], op.arg)

(* The epsilon rule returned a tensor that the flat rule does not return. *)
C6_Witness ==
    /\ op.name = "_epsilon_lrp" /\ ret.ok
    /\ ret # MaxPool_flat_lrp(modules[1], op.arg)
    /\ ret = MaxPool_simple_lrp(modules[1], op.arg)

(* C7: the simple rule of MaxPool gives every position, from every window  *)
(* that covers it and in which it holds the maximum, the relevance r of    *)
(* that window divided by the number t of positions of the window that     *)
(* hold the maximum, and nothing from any other window; a position gets    *)
(* the sum of these shares.  The output cached by forward is the maximum   *)
(* of each window.                                                         *)
C7_SimpleShares ==
    /\ (op.name = "forward" /\ ret.ok) =>
        \A k \in 1..Len(Windows(modules[1])) :
            LET w == Windows(modules[1])[k]
            IN  \A hw \in Maxima(modules[1], 0, w[1], w[2], 0) :
                    At4(modules[1].Y, 0, w[1], w[2], 0) = At4(modules[1].X, 0, hw[1], hw[2], 0)
    /\ op.name = "_simple_lrp" => ret = SimpleRelevance(modules[1], op.arg)

(* Two tied maxima of a window of relevance r got r/2 each, with windows   *)
(* that overlap.                                                           *)
C7_Witness ==
    /\ op.name = "_simple_lrp" /\ ret.ok
    /\ HasTie(modules[1]) /\ HasOverlap(modules[1])
    /\ op.arg = OnesOf(op.arg.shape)
    /\ \E p \in 1..Len(ret.val.data) : ret.val.data[p] = Q(1, 2)
    /\ \E p \in 1..Len(ret.val.data) : ret.val.data[p] = Q(3, 2)

(* C10: after forward, the relevance returned by the simple rule and by    *)
(* the flat rule sums to what R sums to, whatever the pool and the stride. *)
C10_Conservation ==
    op.name \in {"_simple_lrp", "_flat_lrp"} =>
        /\ ret.ok
        /\ TSum(ret.val) = TSum(op.arg)

(* Conservation with windows that overlap, and with positions in no window *)
(* at all, for a relevance that does not sum to 0.                         *)
C10_Witness ==
    /\ op.name = "_flat_lrp" /\ ret.ok
    /\ HasUncovered(modules[1])
    /\ TSum(op.arg) # Zero
    /\ \E h \in 1..2 : modules[1].pool[h] > modules[1].stride[h]
            /\ OutDim(modules[1].X.shape[h + 1], modules[1].pool[h], modules[1].stride[h]) > 1

----------------------------------------------------------------------------
(* DenseLRP (mxlrp.py): the custom operator of a fully connected layer.    *)
(* x is [N, I], weight is [O, I], bias is [O], y and ry are [N, O] and rx  *)
(* is [N, I].                                                              *)

(* T[r, c] of a 2-dimensional tensor, indices from 0. *)
At2(T, r, c) == T.data[r * T.shape[2] + c + 1]

(* Mutant: the bias is left out of y. *)
DenseForward_nobias(x, weight, bias) ==
    LET N == x.shape[1]
        I == x.shape[2]
        O == weight.shape[1]
    IN  ND(<<N, O>>,
           [p \in 1..(N * O) |->
                QSum([i \in 1..I |-> QMul(At2(x, (p - 1) \div O, i - 1),
                                           At2(weight, (p - 1) % O, i - 1))])])

(* DenseLRP.forward: y = nd.dot(x, weight.T) + bias *)
DenseForward(x, weight, bias) ==
    LET N == x.shape[1]
        I == x.shape[2]
        O == weight.shape[1]
    IN  ND(<<N, O>>,
           [p \in 1..(N * O) |->
                QAdd(QSum([i \in 1..I |-> QMul(At2(x, (p - 1) \div O, i - 1),
                                                At2(weight, (p - 1) % O, i - 1))]),
                     bias.data[((p - 1) % O) + 1])])

(* Mutant: the sign is that of y, which is 0 for y = 0. *)
Stabilized_sgn(y) == [y |-> y, sign |-> IF VLess(y, Zero) THEN -1 ELSE IF y = Zero THEN 0 ELSE 1]

(* zs = y + 1e-16*((y >= 0)*2 - 1.): the stabilizer is kept as its sign,   *)
(* and the record stands for y + sign * 1e-16, which is never 0.           *)
Stabilized(y) == [y |-> y, sign |-> IF VLess(y, Zero) THEN -1 ELSE 1]

(* DenseLRP.backward:                                                      *)
(*   z  = expand_dims(weight.T, 0) * expand_dims(x, 2)                     *)
(*   rx = nd.sum(z * expand_dims(ry/zs, 1), axis=2)                        *)
(* An entry of rx is the sum over the output units o of num/zs, kept as    *)
(* the list of its terms, for the denominators differ from unit to unit.   *)
DenseBackward(x, weight, y, ry) ==
    LET N == x.shape[1]
        I == x.shape[2]
        O == weight.shape[1]
    IN  ND(<<N, I>>,
           [p \in 1..(N * I) |->
                LET n == (p - 1) \div I
                    i == (p - 1) % I
                IN  [o \in 1..O |->
                        [num |-> QMul(QMul(At2(weight, o - 1, i), At2(x, n, i)),
                                      At2(ry, n, o - 1)),
                         zs |-> Stabilized(At2(y, n, o - 1))]]])

(* The layers the operator is made for, <<O, I>>, and what it is handed:   *)
(* one sample, any entries of x and bias, weights with at most two entries *)
(* that are not 0, and a relevance that selects one output unit.           *)
DenseShapes == { <<2, 2>>, <<1, 2>> }
DenseVals == (-MaxVal)..MaxVal
DenseTensors(sh) == { ND(sh, [p \in 1..Prod(sh) |-> Num(f[p])]) : f \in [1..Prod(sh) -> DenseVals] }
DenseWeights(sh) == { ND(sh, d) : d \in Marked(Prod(sh), DenseVals \ {0}) }
DenseInputs ==
    UNION { { <<x, w, b>> : x \in DenseTensors(<<1, sh[2]>>), w \in DenseWeights(sh),
                              b \in DenseTensors(<<sh[1]>>) } : sh \in DenseShapes }
DenseRels(sh) ==
    IF sh = <<>> THEN {} ELSE
    { ND(sh, [p \in 1..Prod(sh) |-> IF p = h THEN One ELSE Zero]) : h \in 1..Prod(sh) }

(* SpecDense: the operator is handed its inputs, runs forward, and then    *)
(* backward on a relevance.                                                *)
DenseInit ==
    /\ in_data \in DenseInputs
    /\ out_data = <<>> /\ out_grad = <<>> /\ in_grad = <<>>
    /\ cpc = "new"
    /\ modules = <<>> /\ op = NoOp /\ ret = Ok(None) /\ calls = <<>>
    /\ tr = NoTrain

(* DenseLRP.forward(is_train, req, in_data, out_data, aux) *)
DenseForwardOp ==
    /\ cpc = "new"
    /\ out_data' = <<DenseForward(in_data[1], in_data[2], in_data[3])>>
    /\ cpc' = "forward"
    /\ UNCHANGED <<in_data, out_grad, in_grad, netVars, tr>>

(* DenseLRP.backward(req, out_grad, in_data, out_data, in_grad, aux) *)
DenseBackwardOp(ry) ==
    /\ cpc = "forward"
    /\ out_grad' = <<ry>>
    /\ in_grad' = <<DenseBackward(in_data[1], in_data[2], out_data[1], ry)>>
    /\ cpc' = "backward"
    /\ UNCHANGED <<in_data, out_data, netVars, tr>>

(* The shape of y once forward has written it. *)
DenseOutShape == IF out_data = <<>> THEN <<>> ELSE out_data[1].shape

DenseNext ==
    \/ DenseForwardOp
    \/ \E ry \in DenseRels(DenseOutShape) : DenseBackwardOp(ry)

SpecDense == DenseInit /\ [][DenseNext]_vars

(* The output unit a one-hot relevance selects (from 1), and the sum over  *)
(* the input units of the numerators of unit o's terms of rx: the sum of   *)
(* rx is the sum over o of TermSum(o) / (y[o] + sign[o] * 1e-16).          *)
Selected(ry) == CHOOSE o \in 1..Len(ry.data) : ry.data[o] = One
TermSum(rx, o) == QSum([i \in 1..Len(rx.data) |-> rx.data[i][o].num])

(* C9, as the specification states it: for any x, weight and bias and a    *)
(* relevance that is 1 on one output unit k, the returned relevance sums   *)
(* to y[k] / (y[k] + sign * 1e-16), which is the sum of R but for the      *)
(* stabilizer.                                                             *)
C9_ConservesWithAnyBias ==
    cpc = "backward" =>
        LET k == Selected(out_grad[1])
        IN  /\ TermSum(in_grad[1], k) = out_data[1].data[k]
            /\ \A o \in 1..Len(out_data[1].data) : o # k => TermSum(in_grad[1], o) = Zero

(* C9, as the code has it: the returned relevance sums to                  *)
(* (y[k] - bias[k]) / (y[k] + sign * 1e-16), sign being 1 for y[k] >= 0    *)
(* and -1 otherwise; the units not selected add nothing; so the sum is     *)
(* that of R but for the stabilizer where bias[k] is 0.                    *)
C9_ConservesBiasFree ==
    cpc = "backward" =>
        LET k == Selected(out_grad[1])
            y == out_data[1].data
            rx == in_grad[1]
            bias == in_data[3].data
        IN  /\ QAdd(TermSum(rx, k), bias[k]) = y[k]
            /\ bias[k] = Zero => TermSum(rx, k) = y[k]
            /\ \A o \in 1..Len(y) : o # k => TermSum(rx, o) = Zero
            /\ \A i \in 1..Len(rx.data) : \A o \in 1..Len(y) :
                    /\ rx.data[i][o].zs.y = y[o]
                    /\ rx.data[i][o].zs.sign = (IF y[o].n >= 0 THEN 1 ELSE -1)

(* A selected unit with a bias and an output that are not 0, fed by two    *)
(* inputs, whose relevance sums to something else than y[k].               *)
C9_Witness ==
    /\ cpc = "backward"
    /\ LET k == Selected(out_grad[1])
       IN  /\ in_data[3].data[k] # Zero
           /\ out_data[1].data[k] # Zero
           /\ \A i \in 1..Len(in_grad[1].data) : in_grad[1].data[i][k].num # Zero
           /\ TermSum(in_grad[1], k) # out_data[1].data[k]

----------------------------------------------------------------------------
(* SumPoolLRP (mxlrp.py): the custom operator of a sum-pooling layer.  x   *)
(* is [N, C, H, W]; the padding is (0,0), the default of SumPoolLRPProp.   *)
(* normalizer_value is None or 1/sqrt(prod(kernel)), which is kept as the  *)
(* symbol nv > 0: an entry [v, nv] of y stands for v * nv^nv.              *)

PyNone == "None"
DimSqrt == "1/sqrt(prod(kernel))"

(* SumPoolLRP.__init__; channels = 0 stands for None. *)
SumPoolLRP(kernel, stride, pad, normalizer) ==
    [kind |-> "SumPoolLRP", kernel |-> kernel, stride |-> stride, pad |-> pad,
     normalizer |-> normalizer, normalizer_value |-> PyNone,
     channels |-> 0, weight |-> None]

(* np.ones(kernel)[None,None,:,:] * np.eye(channels)[:,:,None,None] *)
SumPoolWeight(channels, kernel) ==
    LET sh == <<channels, channels, kernel[1], kernel[2]>>
    IN  ND(sh, [p \in 1..Prod(sh) |->
                LET ix == Idx4(sh, p) IN IF ix.n = ix.h THEN One ELSE Zero])

(* nd.Pooling(x, kernel, stride, pool_type='sum', pad=(0,0)) *)
SumPooling(x, kernel, stride) ==
    LET Hout == OutDim(x.shape[3], kernel[1], stride[1])
        Wout == OutDim(x.shape[4], kernel[2], stride[2])
        sh == <<x.shape[1], x.shape[2], Hout, Wout>>
    IN  IF Hout < 1 \/ Wout < 1 THEN Err
        ELSE Ok(ND(sh, [p \in 1..Prod(sh) |->
                LET ix == Idx4(sh, p)
                    as == [q \in 1..(kernel[1] * kernel[2]) |->
                            At4(x, ix.n, ix.h,
                                ix.w * stride[1] + ((q - 1) \div kernel[2]),
                                ix.d * stride[2] + ((q - 1) % kernel[2]))]
                IN  QSum(as)]))

(* y * self.normalizer_value: raises when the value is None. *)
Normalized(y, nv) ==
    IF nv = PyNone THEN Err
    ELSE Ok(ND(y.shape, [p \in 1..Len(y.data) |-> [v |-> y.data[p], nv |-> 1]]))

(* SumPoolLRP.forward: the attributes assigned before a raise stay. *)
SumPoolForward(o, x) ==
    LET o1 == IF ~IsND(o.weight) \/ o.channels = 0 \/ o.weight.shape[1] # o.channels
              THEN [o EXCEPT !.channels = x.shape[2],
                             !.weight = SumPoolWeight(x.shape[2], o.kernel)]
              ELSE o
        y == SumPooling(x, o.kernel, o.stride)
        o2 == IF o.normalizer = "dimsqrt" THEN [o1 EXCEPT !.normalizer_value = DimSqrt] ELSE o1
    IN  IF ~y.ok THEN [o |-> o1, res |-> Err]
        ELSE [o |-> o2, res |-> Normalized(y.val, o2.normalizer_value)]

(* Mutant: the cached output is not divided by the normalizer value. *)
Unnormalized_not(e) == e

(* y / self.normalizer_value, entry by entry *)
Unnormalized(e) == [e EXCEPT !.nv = @ - 1]

(* zs = y / self.normalizer_value + 1e-16*((y >= 0)*2 - 1.): the sign is   *)
(* that of the entry of y, which is the sign of v, nv being positive.      *)
SumPoolStabilized(e) ==
    [y |-> Unnormalized(e), sign |-> IF VLess(e.v, Zero) THEN -1 ELSE 1]

(* rx = x * nd.Deconvolution(ry/zs, self.weight, kernel, stride,           *)
(*                           target_shape=(H, W), num_filter=C)            *)
(* An entry of rx is the sum over the entries q of the output of           *)
(* x * weight * ry[q] / zs[q], kept as the list of its terms.              *)
SumPoolDeconv(o, x, y, ry) ==
    ND(x.shape, [p \in 1..Len(x.data) |->
        LET ix == Idx4(x.shape, p)
        IN  [q \in 1..Len(y.data) |->
                LET iy == Idx4(y.shape, q)
                    a == ix.w - iy.w * o.stride[1]
                    b == ix.d - iy.d * o.stride[2]
                    w == IF /\ iy.n = ix.n
                            /\ a \in 0..(o.kernel[1] - 1) /\ b \in 0..(o.kernel[2] - 1)
                         THEN At4(o.weight, iy.h, ix.h, a, b) ELSE Zero
                IN  [num |-> QMul(QMul(x.data[p], w), ry.data[q]),
                     zs |-> SumPoolStabilized(y.data[q])]]])

(* SumPoolLRP.backward, for ry of the shape of y: raises when              *)
(* normalizer_value is None, whatever y holds.                             *)
SumPoolBackward(o, x, y, ry) ==
    IF o.normalizer_value = PyNone \/ ~IsND(y) \/ ~IsND(o.weight) THEN Err
    ELSE Ok(SumPoolDeconv(o, x, y, ry))

(* What the operator is made with and handed: any kernel and stride, the   *)
(* normalizer of SumPoolLRPProp and another one, one sample of one or two  *)
(* channels, and a relevance of the shape of y.                            *)
SumPoolOps ==
    { SumPoolLRP(k, st, <<0, 0>>, nz) :
        k \in PoolSizes, st \in PoolSizes, nz \in {"dimsqrt", "none"} }
SumPoolShapes == { <<1, 1, h, w>> : h \in 1..MaxH, w \in 1..MaxW } \cup { <<1, 2, 1, 2>> }
SumPoolInputs ==
    UNION { { ND(sh, d) : d \in Marked(Prod(sh), {-1, 1}) } : sh \in SumPoolShapes }
SumPoolRels(sh) == IF sh = <<>> THEN {} ELSE { OnesOf(sh), Odds(sh) }

(* SpecSumPool: the operator is made and handed x, runs forward, and then  *)
(* backward on a relevance.  ret is what the method called last returned.  *)
SumPoolInit ==
    /\ modules \in { <<o>> : o \in SumPoolOps }
    /\ in_data \in { <<x>> : x \in SumPoolInputs }
    /\ out_data = <<>> /\ out_grad = <<>> /\ in_grad = <<>>
    /\ cpc = "new"
    /\ op = NoOp /\ ret = Ok(None) /\ calls = <<>>
    /\ tr = NoTrain

(* SumPoolLRP.forward(is_train, req, in_data, out_data, aux); out_data is  *)
(* assigned by the last statement, and so not at all when the call raises. *)
SumPoolForwardOp ==
    /\ modules # <<>> /\ modules[1].kind = "SumPoolLRP"
    /\ cpc \in {"new", "forward"}
    /\ LET r == SumPoolForward(modules[1], in_data[1])
       IN  /\ modules' = <<r.o>>
           /\ ret' = r.res
           /\ out_data' = IF r.res.ok THEN <<r.res.val>> ELSE out_data
    /\ op' = Op("SumPoolLRP.forward", None, NoVar, NoParam, 0)
    /\ cpc' = "forward"
    /\ UNCHANGED <<in_data, out_grad, in_grad, calls, tr>>

(* SumPoolLRP.backward(req, out_grad, in_data, out_data, in_grad, aux).    *)
(* After a forward that raised, out_data holds nothing forward wrote, and  *)
(* backward raises before it makes use of it.                              *)
SumPoolBackwardOp(ry) ==
    /\ modules # <<>> /\ modules[1].kind = "SumPoolLRP"
    /\ cpc = "forward"
    /\ LET r == SumPoolBackward(modules[1], in_data[1],
                                IF out_data = <<>> THEN None ELSE out_data[1], ry)
       IN  /\ ret' = r
           /\ in_grad' = IF r.ok THEN <<r.val>> ELSE in_grad
    /\ out_grad' = <<ry>>
    /\ op' = Op("SumPoolLRP.backward", None, NoVar, NoParam, 0)
    /\ cpc' = "backward"
    /\ UNCHANGED <<modules, in_data, out_data, calls, tr>>

(* The shape y has, or is to have: that of the window sums. *)
SumPoolOutShape ==
    IF modules = <<>> \/ in_data = <<>> \/ Len(in_data) # 1 THEN <<>>
    ELSE LET y == SumPooling(in_data[1], modules[1].kernel, modules[1].stride)
         IN  IF y.ok THEN y.val.shape ELSE <<>>

SumPoolNext ==
    \/ SumPoolForwardOp
    \/ \E ry \in SumPoolRels(SumPoolOutShape) : SumPoolBackwardOp(ry)

SpecSumPool == SumPoolInit /\ [][SumPoolNext]_vars
----------------------------------------------------------------------------
(* ConvLRP (mxlrp.py): the custom operator of a convolution layer.  x is   *)
(* [N, C, H, W], weight is [F, C, kh, kw], bias is [F]; one group, no      *)
(* dilation and no padding.                                                *)

(* ConvLRP.__init__ *)
ConvLRP(kernel, stride, num_filter, no_bias) ==
    [kind |-> "ConvLRP", kernel |-> kernel, stride |-> stride, dilate |-> <<1, 1>>,
     pad |-> <<0, 0>>, num_filter |-> num_filter, num_group |-> 1,
     no_bias |-> no_bias, layout |-> "NCHW"]

(* nd.Convolution(x, weight, bias, kernel, stride, ..., no_bias) *)
Convolution(o, x, weight, bias) ==
    LET Hout == OutDim(x.shape[3], o.kernel[1], o.stride[1])
        Wout == OutDim(x.shape[4], o.kernel[2], o.stride[2])
        sh == <<x.shape[1], o.num_filter, Hout, Wout>>
        C == x.shape[2]
        KK == o.kernel[1] * o.kernel[2]
    IN  IF Hout < 1 \/ Wout < 1 THEN Err
        ELSE Ok(ND(sh, [p \in 1..Prod(sh) |->
                LET ix == Idx4(sh, p)
                    zs == [q \in 1..(C * KK) |->
                            LET c == (q - 1) \div KK
                                a == ((q - 1) % KK) \div o.kernel[2]
                                b == (q - 1) % o.kernel[2]
                            IN  QMul(At4(x, ix.n, c, ix.w * o.stride[1] + a,
                                                     ix.d * o.stride[2] + b),
                                     At4(weight, ix.h, c, a, b))]
                IN  IF o.no_bias THEN QSum(zs)
                    ELSE QAdd(QSum(zs), bias.data[ix.h + 1])]))

(* ConvLRP.forward *)
ConvForward(o, x, weight, bias) == Convolution(o, x, weight, bias)

(* ConvLRP.backward:                                                       *)
(*   zs = y + 1e-16*((y >= 0)*2 - 1.);  F = ry/zs                          *)
(*   rx = x * nd.Deconvolution(F, weight, ..., target_shape=(H, W))        *)
(* An entry of rx is the sum over the entries q of y of                    *)
(* x * weight * ry[q] / zs[q], kept as the list of its terms.              *)
ConvBackward(o, x, weight, y, ry) ==
    Ok(ND(x.shape, [p \in 1..Len(x.data) |->
        LET ix == Idx4(x.shape, p)
        IN  [q \in 1..Len(y.data) |->
                LET iy == Idx4(y.shape, q)
                    a == ix.w - iy.w * o.stride[1]
                    b == ix.d - iy.d * o.stride[2]
                    w == IF /\ iy.n = ix.n
                            /\ a \in 0..(o.kernel[1] - 1) /\ b \in 0..(o.kernel[2] - 1)
                         THEN At4(weight, iy.h, ix.h, a, b) ELSE Zero
                IN  [num |-> QMul(QMul(x.data[p], w), ry.data[q]),
                     zs |-> Stabilized(y.data[q])]]]))

(* What the operator is made with and handed: one filter over a row of     *)
(* two entries, with and without bias, strides 1 and 2; an x of one sample *)
(* and one channel with at most two entries that are not 0; and a          *)
(* relevance of the shape of y.                                            *)
ConvOps ==
    { ConvLRP(<<1, 2>>, st, 1, nb) : st \in {<<1, 1>>, <<1, 2>>}, nb \in BOOLEAN }
ConvShapes == { <<1, 1, 1, MaxW>>, <<1, 1, MaxH, 2>> }
ConvInputs ==
    UNION { { <<ND(sh, d), w, b>> : d \in Marked(Prod(sh), DenseVals \ {0}),
                                    w \in DenseTensors(<<1, 1, 1, 2>>),
                                    b \in DenseTensors(<<1>>) } : sh \in ConvShapes }

(* SpecConv: the operator is made and handed its inputs, runs forward, and *)
(* then backward on a relevance.                                           *)
ConvInit ==
    /\ modules \in { <<o>> : o \in ConvOps }
    /\ in_data \in ConvInputs
    /\ out_data = <<>> /\ out_grad = <<>> /\ in_grad = <<>>
    /\ cpc = "new"
    /\ op = NoOp /\ ret = Ok(None) /\ calls = <<>>
    /\ tr = NoTrain

(* ConvLRP.forward(is_train, req, in_data, out_data, aux) *)
ConvForwardOp ==
    /\ modules # <<>> /\ modules[1].kind = "ConvLRP"
    /\ cpc = "new"
    /\ LET r == ConvForward(modules[1], in_data[1], in_data[2], in_data[3])
       IN  /\ ret' = r
           /\ out_data' = IF r.ok THEN <<r.val>> ELSE out_data
    /\ op' = Op("ConvLRP.forward", None, NoVar, NoParam, 0)
    /\ cpc' = "forward"
    /\ UNCHANGED <<modules, in_data, out_grad, in_grad, calls, tr>>

(* ConvLRP.backward(req, out_grad, in_data, out_data, in_grad, aux), after *)
(* a forward that returned.                                                *)
ConvBackwardOp(ry) ==
    /\ modules # <<>> /\ modules[1].kind = "ConvLRP"
    /\ cpc = "forward" /\ ret.ok
    /\ LET r == ConvBackward(modules[1], in_data[1], in_data[2], out_data[1], ry)
       IN  /\ ret' = r
           /\ in_grad' = <<r.val>>
    /\ out_grad' = <<ry>>
    /\ op' = Op("ConvLRP.backward", None, NoVar, NoParam, 0)
    /\ cpc' = "backward"
    /\ UNCHANGED <<modules, in_data, out_data, calls, tr>>

ConvNext ==
    \/ ConvForwardOp
    \/ \E ry \in SumPoolRels(DenseOutShape) : ConvBackwardOp(ry)

SpecConv == ConvInit /\ [][ConvNext]_vars

(* SpecLRP: any of the three custom operators. *)
LRPInit == DenseInit \/ ConvInit \/ SumPoolInit

LRPNext ==
    \/ (modules = <<>> /\ DenseNext)
    \/ ConvNext
    \/ SumPoolNext

SpecLRP == LRPInit /\ [][LRPNext]_vars

----------------------------------------------------------------------------
(* What the sum-pool operator is to compute, written from the windows.     *)

(* Entry p of x lies in the window of entry q of y (same sample, same      *)
(* channel), for operator o.                                               *)
Covers(o, xshape, yshape, p, q) ==
    LET ix == Idx4(xshape, p)
        iy == Idx4(yshape, q)
    IN  /\ ix.n = iy.n /\ ix.h = iy.h
        /\ iy.w * o.stride[1] <= ix.w /\ ix.w < iy.w * o.stride[1] + o.kernel[1]
        /\ iy.d * o.stride[2] <= ix.d /\ ix.d < iy.d * o.stride[2] + o.kernel[2]

(* The plain sum of the window of entry q of y. *)
WindowSum(o, x, yshape, q) ==
    QSum([p \in 1..Len(x.data) |->
            IF Covers(o, x.shape, yshape, p, q) THEN x.data[p] ELSE Zero])

(* The relevance of a sum-pool without normalizer: x * ry / (sum + sign *  *)
(* 1e-16) from every window that covers the entry.                         *)
PlainSumPoolRelevance(o, x, ry) ==
    ND(x.shape, [p \in 1..Len(x.data) |->
        [q \in 1..Len(ry.data) |->
            [num |-> IF Covers(o, x.shape, ry.shape, p, q)
                     THEN QMul(x.data[p], ry.data[q]) ELSE Zero,
             zs |-> [y |-> [v |-> WindowSum(o, x, ry.shape, q), nv |-> 0],
                     sign |-> IF WindowSum(o, x, ry.shape, q).n < 0 THEN -1 ELSE 1]]]])

(* The sum over the entries of x of the numerators of the terms of window q. *)
WindowTermSum(rx, q) == QSum([p \in 1..Len(rx.data) |-> rx.data[p][q].num])

(* C13: forward writes the window sums times the normalizer value;         *)
(* backward divides them by that value again, so that every denominator is *)
(* the plain window sum, stabilized; the relevance returned is that of a   *)
(* sum-pool without normalizer, and window q hands down                    *)
(* ry[q] * sum[q] / (sum[q] + sign * 1e-16) in total.                      *)
C13_NormalizerInverted ==
    /\ (op.name = "SumPoolLRP.forward" /\ ret.ok) =>
        \A q \in 1..Len(out_data[1].data) :
            out_data[1].data[q] =
                [v |-> WindowSum(modules[1], in_data[1], out_data[1].shape, q), nv |-> 1]
    /\ (op.name = "SumPoolLRP.backward" /\ ret.ok) =>
        /\ in_grad[1] = PlainSumPoolRelevance(modules[1], in_data[1], out_grad[1])
        /\ \A q \in 1..Len(out_grad[1].data) :
            /\ WindowTermSum(in_grad[1], q) =
                    QMul(out_grad[1].data[q],
                         WindowSum(modules[1], in_data[1], out_grad[1].shape, q))
            /\ \A p \in 1..Len(in_grad[1].data) : in_grad[1].data[p][q].zs.y.nv = 0

(* A backward over windows of two entries that overlap, of which one has   *)
(* a sum that is not 0.                                                    *)
C13_Witness ==
    /\ op.name = "SumPoolLRP.backward" /\ ret.ok
    /\ modules[1].kernel = <<1, 2>> /\ modules[1].stride = <<1, 1>>
    /\ Len(out_grad[1].data) > 1
    /\ out_grad[1] = Odds(out_grad[1].shape)
    /\ \E q \in 1..Len(out_grad[1].data) : WindowTermSum(in_grad[1], q) = Num(2)

(* The value a denominator is stabilized from, as a number: the entry of   *)
(* y for the dense and the convolution operator, and the entry of y        *)
(* divided by the normalizer value, of which v has the sign, for the       *)
(* sum-pool operator.                                                      *)
IsSumPool == modules # <<>> /\ modules[1].kind = "SumPoolLRP"
DenomBase(zs) == IF IsSumPool THEN zs.y.v ELSE zs.y

(* C12: in the backward of the dense, the convolution and the sum-pool     *)
(* operator every denominator is Y + s * 1e-16 for the entry Y of the      *)
(* cached output it belongs to, with s = 1 for Y >= 0 and s = -1           *)
(* otherwise; Y never has the sign opposite to s, so the denominator is    *)
(* not 0 and has the sign s, for Y = 0 too.                                *)
C12_Stabilizer ==
    (cpc = "backward" /\ in_grad # <<>>) =>
        \A p \in 1..Len(in_grad[1].data) : \A q \in 1..Len(out_data[1].data) :
            LET zs == in_grad[1].data[p][q].zs
                Y == out_data[1].data[q]
            IN  /\ zs.y = (IF IsSumPool THEN [Y EXCEPT !.nv = 0] ELSE Y)
                /\ zs.sign \in {-1, 1}
                /\ zs.sign = 1 <=> DenomBase(zs).n >= 0
                /\ zs.sign * DenomBase(zs).n >= 0

(* The convolution operator ran backward over an output with an entry 0    *)
(* and a negative entry.                                                   *)
C12_Witness ==
    /\ cpc = "backward" /\ in_grad # <<>>
    /\ modules # <<>> /\ modules[1].kind = "ConvLRP"
    /\ \E q \in 1..Len(out_data[1].data) :
            out_data[1].data[q] = Zero /\ in_grad[1].data[1][q].zs.sign = 1
    /\ \E q \in 1..Len(out_data[1].data) :
            out_data[1].data[q].n < 0 /\ in_grad[1].data[1][q].zs.sign = -1

(* C20: with a normalizer other than 'dimsqrt', forward returns and its    *)
(* output is the plain window sum, and the backward after it returns and   *)
(* has the plain window sum, stabilized, as denominator.                   *)
C20_OtherNormalizerPlainSum ==
    (modules # <<>> /\ modules[1].kind = "SumPoolLRP" /\ modules[1].normalizer # "dimsqrt"
        /\ SumPoolOutShape # <<>>) =>
        /\ op.name = "SumPoolLRP.forward" =>
            /\ ret.ok
            /\ \A q \in 1..Len(out_data[1].data) :
                    out_data[1].data[q].v
                        = WindowSum(modules[1], in_data[1], out_data[1].shape, q)
        /\ op.name = "SumPoolLRP.backward" =>
            /\ ret.ok
            /\ in_grad[1] = PlainSumPoolRelevance(modules[1], in_data[1], out_grad[1])

----------------------------------------------------------------------------
(* Sequential.train (sequential.py).  The layers that are trained and the  *)
(* data are not part of the sources at hand: a network is a list of one    *)
(* layer whose parameters are the number of updates made on them, and the  *)
(* accuracy and the l1-loss of an evaluation are any values.  The order of *)
(* the losses is that of the numbers 0..MaxLoss, then sys.maxint, then the *)
(* float inf, which a network that diverged has as loss.                   *)

Layer(params) == [kind |-> "Layer", params |-> params]

SysMaxInt == MaxLoss + 1
LossInf == MaxLoss + 2
Losses == (0..MaxLoss) \cup {LossInf}
Accs == { Zero, Q(1, 2) }

(* Sequential.update: for m in self.modules: m.update(lrate) *)
SequentialUpdate(ms, lrate) == [k \in 1..Len(ms) |-> [ms[k] EXCEPT !.params = @ + 1]]

(* copy.deepcopy(self.modules) *)
DeepCopy(ms) == ms

(* The arguments of a call of train: iters, status, convergence,           *)
(* lrate_decay, and whether Xval and Yval are given.                       *)
TrainArgs ==
    [iters : {0, MaxIters}, status : {1, 2, 10}, convergence : {-1, 0, 1, 2},
     lrate_decay : {"None", "linear", "sublinear"}, val : BOOLEAN]

(* Lines 158-170: the local variables before the loop.  passes, evals,     *)
(* streak, low, trueacc and trueloss are not variables of the code: the    *)
(* number of passes of the loop that made their update, the number of      *)
(* evaluations, the number of evaluations since the last one that improved *)
(* (or since the start), the lowest loss of an evaluation so far and the   *)
(* modules at the latest evaluation that had it, and the means over the    *)
(* validation samples at the last evaluation.                              *)
TrainStart(a, ms) ==
    [pc |-> "loop", args |-> a,
     d |-> 0, untilConvergence |-> a.convergence, learningFactor |-> One,
     bestAccuracy |-> Zero, bestLayers |-> DeepCopy(ms), bestLoss |-> SysMaxInt,
     bestIter |-> 0, acc |-> Zero, l1loss |-> 0,
     passes |-> 0, evals |-> 0, streak |-> 0, low |-> [loss |-> -1, layers |-> ms],
     trueacc |-> Zero, trueloss |-> 0]

(* Lines 246-255: the learning factor after an evaluation that improved. *)
Decay(lrate_decay, learningFactor, acc) ==
    CASE lrate_decay = "sublinear" -> QAdd(One, QMul(Num(-1), QMul(acc, acc)))
      [] lrate_decay = "linear" -> QAdd(One, QMul(Num(-1), acc))
      [] OTHER -> learningFactor

(* Mutant: an evaluation that does not improve leaves the count as it is. *)
Countdown_not(untilConvergence) == untilConvergence

(* untilConvergence-=1 *)
Countdown(untilConvergence) == untilConvergence - 1

(* Lines 199-281 of one pass of the loop, after the update: the evaluation *)
(* with accuracy acc and loss l1loss, or the sign of life.  status/10 is   *)
(* Python 2's integer division, and a remainder by 0 raises.               *)
TrainStatus(t, ms, acc, l1loss, trueacc, trueloss) ==
    LET a == t.args
    IN  IF a.status = 0 THEN [t EXCEPT !.pc = "raised"]
        ELSE IF (t.d + 1) % a.status = 0
        THEN LET e == [t EXCEPT !.acc = acc, !.l1loss = l1loss, !.evals = @ + 1,
                                !.trueacc = trueacc, !.trueloss = trueloss,
                                !.low = IF t.low.loss = -1 \/ l1loss <= t.low.loss
                                        THEN [loss |-> l1loss, layers |-> ms] ELSE @]
             IN  IF l1loss <= t.bestLoss
                 THEN [e EXCEPT !.bestAccuracy = acc, !.bestLoss = l1loss,
                                !.bestLayers = DeepCopy(ms), !.bestIter = t.d,
                                !.learningFactor = Decay(a.lrate_decay, @, acc),
                                !.untilConvergence = a.convergence,
                                !.streak = 0, !.d = @ + 1]
                 ELSE LET u == Countdown(t.untilConvergence)
                      IN  IF u = 0 /\ a.convergence > 0
                          THEN [e EXCEPT !.untilConvergence = u, !.streak = @ + 1,
                                         !.pc = "after"]
                          ELSE [e EXCEPT !.untilConvergence = u, !.streak = @ + 1,
                                         !.d = @ + 1]
        ELSE IF a.status \div 10 = 0 THEN [t EXCEPT !.pc = "raised"]
        ELSE [t EXCEPT !.d = @ + 1]

(* Lines 172-196 of one pass of the loop: a batch is fed forward and      *)
(* backward and the parameters are updated; then the status lines.         *)
TrainPass(t, ms, acc, l1loss, trueacc, trueloss) ==
    LET ms1 == SequentialUpdate(ms, QMul(One, t.learningFactor))
    IN  [t |-> TrainStatus([t EXCEPT !.passes = @ + 1], ms1, acc, l1loss, trueacc, trueloss),
         modules |-> ms1]

(* Mutant: the modules are left as the last update made them. *)
TrainRestore_not(t, ms) == ms

(* Line 285: self.modules = bestLayers *)
TrainRestore(t, ms) == t.bestLayers

(* net.train(X, Y, Xval, Yval, iters=..., status=..., convergence=...,     *)
(* lrate_decay=...): up to the loop.                                       *)
Train(a) ==
    /\ tr.pc = "none"
    /\ tr' = TrainStart(a, modules)
    /\ op' = Op("train", None, NoVar, NoParam, 0)
    /\ UNCHANGED <<modules, ret, calls, opVars>>

(* One pass of the loop.  With validation data the accuracy and the loss   *)
(* of an evaluation are the means of accs and loss, which nd.empty made in *)
(* the last pass of the while loop and which nothing was written to: the   *)
(* result of nd.concat is dropped.  They hold any values, whatever the     *)
(* means trueacc and trueloss over the validation samples are.  Without    *)
(* validation data they are computed from the training data.               *)
TrainIteration(acc, l1loss, trueacc, trueloss) ==
    /\ tr.pc = "loop" /\ tr.d < tr.args.iters
    /\ ~tr.args.val => (trueacc = acc /\ trueloss = l1loss)
    /\ LET r == TrainPass(tr, modules, acc, l1loss, trueacc, trueloss)
       IN  /\ tr' = r.t
           /\ modules' = r.modules
           /\ ret' = IF r.t.pc = "raised" THEN Err ELSE ret
    /\ UNCHANGED <<op, calls, opVars>>

(* The loop is left, by break or with xrange(iters) used up: lines 283-285. *)
TrainReturn ==
    /\ tr.pc = "after" \/ (tr.pc = "loop" /\ tr.d >= tr.args.iters)
    /\ tr' = [tr EXCEPT !.pc = "returned"]
    /\ modules' = TrainRestore(tr, modules)
    /\ ret' = Ok(None)
    /\ UNCHANGED <<op, calls, opVars>>

TrainInit ==
    /\ modules = <<Layer(0)>>
    /\ op = NoOp /\ ret = Ok(None) /\ calls = <<>>
    /\ OpIdle

TrainNext ==
    \/ \E a \in TrainArgs : Train(a)
    \/ \E acc \in Accs, trueacc \in Accs : \E l1loss \in Losses, trueloss \in Losses :
            TrainIteration(acc, l1loss, trueacc, trueloss)
    \/ TrainReturn

SpecTrain == TrainInit /\ [][TrainNext]_vars

----------------------------------------------------------------------------
(* C11: a call of lrp with a variant name that is no variant raises, in    *)
(* every module it reaches and so in Sequential.lrp.                       *)
C11_UnknownVariantFails ==
    (op.name = "lrp" /\ RuleOf(op.lrp_var) = "unknown") =>
        /\ ~ret.ok
        /\ \A j \in 1..Len(calls) : ~calls[j].out.ok

----------------------------------------------------------------------------
(* The modules as they were constructed, but for their presets; and the    *)
(* attributes the forward of a module assigns.                             *)
Fresh(ms) == [k \in 1..Len(ms) |-> [ms[k] EXCEPT !.X = Unset, !.Y = Unset, !.inputshape = <<>>]]
Cache(m) ==
    CASE m.kind = "MaxPool" -> <<m.X, m.Y>>
      [] m.kind \in {"Rect", "Tanh"} -> <<m.Y>>
      [] m.kind = "Flatten" -> <<m.inputshape>>

(* C14: after a forward(X) that returned, whatever was called before it,   *)
(* every module has cached what it would have cached had forward(X) been   *)
(* the only call on the network, and lrp returns for every R and variant   *)
(* what it would return then.                                              *)
C14_ForwardOverwrites ==
    (op.name = "forward" /\ ret.ok) =>
        LET only == SequentialForward(Fresh(modules), op.arg)
        IN  /\ only.res = ret
            /\ \A k \in 1..Len(modules) : Cache(modules[k]) = Cache(only.modules[k])
            /\ \A R \in NetRels(OutShape(modules)) : \A a \in NetLrpArgs :
                    SequentialLrp(modules, R, a[1], a[2]).res
                        = SequentialLrp(only.modules, R, a[1], a[2]).res

(* A forward that returned on a network of three modules, two of them      *)
(* pooling, each of which had run forward before.                          *)
C14_Witness ==
    /\ op.name = "forward" /\ ret.ok
    /\ Len(modules) = 3 /\ modules[1].kind = "MaxPool"
    /\ \A k \in 1..Len(modules) : modules[k].nfwd >= 2

(* C15: a call of lrp leaves every module as it was, cache, pool, stride,  *)
(* presets and the list itself, and so the same call made again returns    *)
(* the same.                                                               *)
C15_SameAgain ==
    op.name = "lrp" => SequentialLrp(modules, op.arg, op.lrp_var, op.param).res = ret

C15_ModulesKept == op'.name = "lrp" => modules' = modules

C15_LrpReadOnly == [](C15_SameAgain) /\ [][C15_ModulesKept]_vars

(* A pooling layer alone returned a relevance that is not the one it was   *)
(* handed.                                                                 *)
C15_Witness ==
    /\ op.name = "lrp" /\ ret.ok
    /\ Len(modules) = 1 /\ modules[1].kind = "MaxPool"
    /\ ret.val # op.arg

(* C16: when the lrp of a module raises during Sequential.lrp, the call    *)
(* raises and returns no relevance, the module that raised is the last one *)
(* lrp was called on, and lrp was called on no module before it in the     *)
(* list; and the call raises in no other case.                             *)
C16_SweepFailsAsAWhole ==
    op.name = "lrp" =>
        /\ (\E j \in 1..Len(calls) : ~calls[j].out.ok) <=> ~ret.ok
        /\ ~ret.ok =>
            /\ ret.val = None
            /\ Len(calls) >= 1
            /\ ~calls[Len(calls)].out.ok
            /\ \A j \in 1..(Len(calls) - 1) : calls[j].out.ok
            /\ \A j \in 1..Len(calls) : calls[j].m = Len(modules) - j + 1
            /\ \A k \in 1..Len(modules) :
                    k < calls[Len(calls)].m => \A j \in 1..Len(calls) : calls[j].m # k

(* The middle module of three raised: the last was called before it, the   *)
(* first not at all.                                                       *)
C16_Witness ==
    /\ op.name = "lrp" /\ ~ret.ok
    /\ Len(modules) = 3 /\ Len(calls) = 2
    /\ calls[1].out.ok /\ calls[2].m = 2

----------------------------------------------------------------------------
C18_BestLayersRestored ==
    tr.pc = "returned" =>
        modules = (IF tr.evals = 0 THEN <<Layer(0)>> ELSE tr.low.layers)

(* C19: with validation data, the accuracy and the l1-loss of an           *)
(* evaluation are the means over the validation samples fed through the    *)
(* network in that evaluation.                                             *)
C19_ValidationMeans ==
    (tr.pc \in {"loop", "after", "returned"} /\ tr.args.val /\ tr.evals > 0) =>
        /\ tr.acc = tr.trueacc
        /\ tr.l1loss = tr.trueloss

====
